---------------------------- MODULE Spec2Model ----------------------------
(***************************************************************************)
(* Model of src/shape/Sector.js (recharts): the path geometry of an        *)
(* annular sector.                                                         *)
(*                                                                         *)
(* Numbers.  JavaScript numbers are modelled in fixed point:               *)
(*   - an angle is an integer number of 1/DEG degrees (DEG = 2000, so that *)
(*     359.999 degrees and values strictly between it and 360 degrees are  *)
(*     representable);                                                     *)
(*   - a length is an integer number of 1/PX pixels;                       *)
(*   - NaN is a sentinel outside both ranges.                              *)
(* Math.asin and Math.cos are computed from a one-degree sine table scaled *)
(* by SinScale, with linear interpolation; the table is exact at 0, 30 and *)
(* 90 degrees, the only places where the code's comparisons can tie on the *)
(* inputs drawn here.                                                      *)
(*                                                                         *)
(* Points.  A Cartesian point produced by polarToCartesian is kept as the  *)
(* canonical polar coordinates about its centre (radius >= 0, angle in     *)
(* [0, 360), angle 0 at radius 0), which determine the Cartesian point     *)
(* uniquely: two points are equal here iff they coincide on the plane.     *)
(*                                                                         *)
(* Paths.  The template strings are kept as the sequence of path commands  *)
(* they spell (M, A, a, L, Z) with their numeric arguments.                *)
(***************************************************************************)
EXTENDS Integers, Sequences, FiniteSets

VARIABLES props, pc, d, calls

vars == <<props, pc, d, calls>>

---------------------------------------------------------------------------
(* Number representation *)

DEG == 2000

PX == 100

SinScale == 1000000

NaN == -999999999

\* 359.999 degrees, the cap of getDeltaAngle
CapAngle == 719998

FullTurn == 360 * DEG

\* the value render returns when there is nothing to draw
null == << >>

Abs(x) == IF x < 0 THEN -x ELSE x

Min(a, b) == IF a < b THEN a ELSE b

\* unary plus applied to a boolean
Bit(b) == IF b THEN 1 ELSE 0

\* a < b and a > b on numbers: false when either side is NaN
LT(a, b) == a # NaN /\ b # NaN /\ a < b

GT(a, b) == a # NaN /\ b # NaN /\ a > b

SinTable ==
  << 0, 17452, 34899, 52336, 69756, 87156, 104528, 121869,
     139173, 156434, 173648, 190809, 207912, 224951, 241922, 258819,
     275637, 292372, 309017, 325568, 342020, 358368, 374607, 390731,
     406737, 422618, 438371, 453990, 469472, 484810, 500000, 515038,
     529919, 544639, 559193, 573576, 587785, 601815, 615661, 629320,
     642788, 656059, 669131, 681998, 694658, 707107, 719340, 731354,
     743145, 754710, 766044, 777146, 788011, 798636, 809017, 819152,
     829038, 838671, 848048, 857167, 866025, 874620, 882948, 891007,
     898794, 906308, 913545, 920505, 927184, 933580, 939693, 945519,
     951057, 956305, 961262, 965926, 970296, 974370, 978148, 981627,
     984808, 987688, 990268, 992546, 994522, 996195, 997564, 998630,
     999391, 999848, 1000000 >>

\* sin of a whole number of degrees 0..90, scaled by SinScale
SinDeg(k) == SinTable[k + 1]

\* sin(a) * SinScale for an angle a in [0, 90] degrees
SinFx(a) ==
  IF a >= 90 * DEG THEN SinScale
  ELSE LET k == a \div DEG
           f == a % DEG
       IN SinDeg(k) + ((SinDeg(k + 1) - SinDeg(k)) * f) \div DEG

\* asin(q / SinScale) in angle units, for q in 0..SinScale
AsinFx(q) ==
  IF q >= SinScale THEN 90 * DEG
  ELSE LET k == CHOOSE j \in 0..89 : SinDeg(j) <= q /\ q < SinDeg(j + 1)
       IN k * DEG + ((q - SinDeg(k)) * DEG) \div (SinDeg(k + 1) - SinDeg(k))

\* Math.asin(num / den) / RADIAN: NaN when the quotient is outside [-1, 1]
\* (a zero divisor gives an infinite quotient, or NaN for 0 / 0)
AsinDegrees(num, den) ==
  IF den = 0 \/ Abs(num) > Abs(den) THEN NaN
  ELSE LET t == AsinFx((Abs(num) * SinScale) \div Abs(den))
       IN IF (num < 0) # (den < 0) THEN -t ELSE t

\* radius * Math.cos(theta * RADIAN), theta in [-90, 90] degrees or NaN
TimesCos(radius, theta) ==
  IF theta = NaN THEN NaN
  ELSE LET m == (Abs(radius) * SinFx(90 * DEG - Abs(theta))) \div SinScale
       IN IF radius < 0 THEN -m ELSE m

---------------------------------------------------------------------------
(* Collaborators from util/DataUtils and util/PolarUtils *)

mathSign(value) == IF value = 0 THEN 0 ELSE IF value > 0 THEN 1 ELSE -1

\* percent is [kind |-> "abs", v |-> length] or [kind |-> "pct", v |-> percentage]
getPercentValue(percent, totalValue, defaultValue, validate) ==
  LET value == IF percent.kind = "pct" THEN (totalValue * percent.v) \div 100
               ELSE percent.v
      based == IF value < defaultValue THEN defaultValue ELSE value
  IN IF validate /\ based > totalValue THEN totalValue ELSE based

polarToCartesian(cx, cy, radius, angle) ==
  IF radius = NaN \/ angle = NaN THEN [cx |-> cx, cy |-> cy, r |-> NaN, a |-> NaN]
  ELSE IF radius = 0 THEN [cx |-> cx, cy |-> cy, r |-> 0, a |-> 0]
  ELSE IF radius < 0
       THEN [cx |-> cx, cy |-> cy, r |-> -radius, a |-> (angle + 180 * DEG) % FullTurn]
       ELSE [cx |-> cx, cy |-> cy, r |-> radius, a |-> angle % FullTurn]

\* the point written `${cx},${cy}`
centerPoint(cx, cy) == [cx |-> cx, cy |-> cy, r |-> 0, a |-> 0]

---------------------------------------------------------------------------
(* Path commands *)

MoveTo(p) == [op |-> "M", p |-> p]

ArcTo(radius, large, sweep, p) ==
  [op |-> "A", rx |-> radius, ry |-> radius, rot |-> 0,
   large |-> large, sweep |-> sweep, p |-> p]

RelArc(radius, large, sweep, dx, dy) ==
  [op |-> "a", rx |-> radius, ry |-> radius, rot |-> 0,
   large |-> large, sweep |-> sweep, dx |-> dx, dy |-> dy]

LineTo(p) == [op |-> "L", p |-> p]

ClosePath == [op |-> "Z"]

---------------------------------------------------------------------------
(* Sector.js *)

getDeltaAngle_uncapped(startAngle, endAngle) ==
  mathSign(endAngle - startAngle) * Abs(endAngle - startAngle)

getDeltaAngle(startAngle, endAngle) ==
  LET sign == mathSign(endAngle - startAngle)
      deltaAngle == Min(Abs(endAngle - startAngle), CapAngle)
  IN sign * deltaAngle

centerRadiusOf(radius, isExternal, cornerRadius) ==
  cornerRadius * (IF isExternal THEN 1 ELSE -1) + radius

getTangentCircle(cx, cy, radius, angle, sign, isExternal, cornerRadius) ==
  LET centerRadius == centerRadiusOf(radius, isExternal, cornerRadius)
      theta == AsinDegrees(cornerRadius, centerRadius)
      centerAngle == IF theta = NaN THEN NaN ELSE angle + sign * theta
  IN [center |-> polarToCartesian(cx, cy, centerRadius, centerAngle),
      circleTangency |-> polarToCartesian(cx, cy, radius, centerAngle),
      lineTangency |-> polarToCartesian(cx, cy, TimesCos(centerRadius, theta), angle),
      theta |-> theta]

largeArcFlag_atLeast(angle) == Bit(Abs(angle) >= 180 * DEG)

largeArcFlag(angle) == Bit(Abs(angle) > 180 * DEG)

outerSweepFlag_fixed(startAngle, tempEndAngle) == 0

outerSweepFlag(startAngle, tempEndAngle) == Bit(startAngle > tempEndAngle)

innerSweepFlag(startAngle, tempEndAngle) == Bit(startAngle <= tempEndAngle)

hasInnerEdge_orZero(innerRadius) == innerRadius >= 0

hasInnerEdge(innerRadius) == innerRadius > 0

getSectorPath(cx, cy, innerRadius, outerRadius, startAngle, endAngle) ==
  LET angle == getDeltaAngle(startAngle, endAngle)
      tempEndAngle == startAngle + angle
      outerStartPoint == polarToCartesian(cx, cy, outerRadius, startAngle)
      outerEndPoint == polarToCartesian(cx, cy, outerRadius, tempEndAngle)
      path == << MoveTo(outerStartPoint),
                 ArcTo(outerRadius, largeArcFlag(angle),
                       outerSweepFlag(startAngle, tempEndAngle), outerEndPoint) >>
  IN IF hasInnerEdge(innerRadius)
     THEN LET innerStartPoint == polarToCartesian(cx, cy, innerRadius, startAngle)
              innerEndPoint == polarToCartesian(cx, cy, innerRadius, tempEndAngle)
          IN path \o << LineTo(innerEndPoint),
                        ArcTo(innerRadius, largeArcFlag(angle),
                              innerSweepFlag(startAngle, tempEndAngle), innerStartPoint),
                        ClosePath >>
     ELSE path \o << LineTo(centerPoint(cx, cy)), ClosePath >>


\* |startAngle - endAngle| - theta1 - theta2 (outerArcAngle, innerArcAngle)
arcAngle(startAngle, endAngle, theta1, theta2) ==
  IF theta1 = NaN \/ theta2 = NaN THEN NaN
  ELSE Abs(startAngle - endAngle) - theta1 - theta2

tooShort(remainingAngle) == LT(remainingAngle, 0)

forcedCircle_oneArc(solt, cornerRadius) ==
  << MoveTo(solt), RelArc(cornerRadius, 0, 1, cornerRadius * 2, 0) >>

forcedCircle_open(solt, cornerRadius) ==
  << MoveTo(solt),
     RelArc(cornerRadius, 0, 1, cornerRadius * 2, 0),
     RelArc(cornerRadius, 0, 1, cornerRadius * 2, 0) >>

\* the circle drawn when forceCornerRadius is set and the corners do not fit
forcedCircle(solt, cornerRadius) ==
  << MoveTo(solt),
     RelArc(cornerRadius, 0, 1, cornerRadius * 2, 0),
     RelArc(cornerRadius, 0, 1, (-cornerRadius) * 2, 0) >>

outerEdge(solt, soct, eoct, eolt, outerRadius, cornerRadius, outerArcAngle, sign) ==
  << MoveTo(solt),
     ArcTo(cornerRadius, 0, Bit(sign < 0), soct),
     ArcTo(outerRadius, Bit(GT(outerArcAngle, 180 * DEG)), Bit(sign < 0), eoct),
     ArcTo(cornerRadius, 0, Bit(sign < 0), eolt) >>

innerEdge(eilt, eict, sict, silt, innerRadius, cornerRadius, innerArcAngle, sign) ==
  << LineTo(eilt),
     ArcTo(cornerRadius, 0, Bit(sign < 0), eict),
     ArcTo(innerRadius, Bit(GT(innerArcAngle, 180 * DEG)), Bit(sign > 0), sict),
     ArcTo(cornerRadius, 0, Bit(sign < 0), silt),
     ClosePath >>

\* entries of the call log
tangentCall(radius, angle, sign, isExternal, cornerRadius, theta) ==
  [fn |-> "getTangentCircle", radius |-> radius, angle |-> angle, sign |-> sign,
   isExternal |-> isExternal, cornerRadius |-> cornerRadius, theta |-> theta]

sectorPathCall(cx, cy, innerRadius, outerRadius, startAngle, endAngle) ==
  [fn |-> "getSectorPath", cx |-> cx, cy |-> cy, innerRadius |-> innerRadius,
   outerRadius |-> outerRadius, startAngle |-> startAngle, endAngle |-> endAngle]

sectorWithCornerCall(cx, cy, innerRadius, outerRadius, cornerRadius, forceCornerRadius, startAngle, endAngle) ==
  [fn |-> "getSectorWithCorner", cx |-> cx, cy |-> cy, innerRadius |-> innerRadius,
   outerRadius |-> outerRadius, cornerRadius |-> cornerRadius,
   forceCornerRadius |-> forceCornerRadius,
   startAngle |-> startAngle, endAngle |-> endAngle]

\* returns the path together with the calls made while building it
getSectorWithCorner(cx, cy, innerRadius, outerRadius, cornerRadius, forceCornerRadius, startAngle, endAngle) ==
  LET sign == mathSign(endAngle - startAngle)
      so == getTangentCircle(cx, cy, outerRadius, startAngle, sign, FALSE, cornerRadius)
      eo == getTangentCircle(cx, cy, outerRadius, endAngle, -sign, FALSE, cornerRadius)
      outerArcAngle == arcAngle(startAngle, endAngle, so.theta, eo.theta)
      outerCalls ==
        << tangentCall(outerRadius, startAngle, sign, FALSE, cornerRadius, so.theta),
           tangentCall(outerRadius, endAngle, -sign, FALSE, cornerRadius, eo.theta) >>
      path == outerEdge(so.lineTangency, so.circleTangency, eo.circleTangency,
                        eo.lineTangency, outerRadius, cornerRadius, outerArcAngle, sign)
      si == getTangentCircle(cx, cy, innerRadius, startAngle, sign, TRUE, cornerRadius)
      ei == getTangentCircle(cx, cy, innerRadius, endAngle, -sign, TRUE, cornerRadius)
      innerArcAngle == arcAngle(startAngle, endAngle, si.theta, ei.theta)
      innerCalls ==
        << tangentCall(innerRadius, startAngle, sign, TRUE, cornerRadius, si.theta),
           tangentCall(innerRadius, endAngle, -sign, TRUE, cornerRadius, ei.theta) >>
  IN IF tooShort(outerArcAngle)
     THEN IF forceCornerRadius
          THEN [path |-> forcedCircle(so.lineTangency, cornerRadius),
                calls |-> outerCalls]
          ELSE [path |-> getSectorPath(cx, cy, innerRadius, outerRadius,
                                       startAngle, endAngle),
                calls |-> outerCalls \o
                          << sectorPathCall(cx, cy, innerRadius, outerRadius,
                                            startAngle, endAngle) >>]
     ELSE IF hasInnerEdge(innerRadius)
          THEN IF tooShort(innerArcAngle)
               THEN [path |-> path \o << LineTo(centerPoint(cx, cy)), ClosePath >>,
                     calls |-> outerCalls \o innerCalls]
               ELSE [path |-> path \o
                              innerEdge(ei.lineTangency, ei.circleTangency,
                                        si.circleTangency, si.lineTangency,
                                        innerRadius, cornerRadius, innerArcAngle, sign),
                     calls |-> outerCalls \o innerCalls]
          ELSE [path |-> path \o << LineTo(centerPoint(cx, cy)), ClosePath >>,
                calls |-> outerCalls]

noGeometry_orEqual(innerRadius, outerRadius, startAngle, endAngle) ==
  outerRadius <= innerRadius \/ startAngle = endAngle

noGeometry(innerRadius, outerRadius, startAngle, endAngle) ==
  outerRadius < innerRadius \/ startAngle = endAngle

useCorner_fullTurn(cr, startAngle, endAngle) ==
  cr > 0 /\ Abs(startAngle - endAngle) <= 360 * DEG

useCorner(cr, startAngle, endAngle) ==
  cr > 0 /\ Abs(startAngle - endAngle) < 360 * DEG

clampCornerRadius_none(cr, deltaRadius) == cr

clampCornerRadius_whole(cr, deltaRadius) == Min(cr, deltaRadius)

clampCornerRadius(cr, deltaRadius) == Min(cr, deltaRadius \div 2)

\* Sector.render: the `d` attribute of the <path> element, or null, and the calls made
render(p) ==
  IF noGeometry(p.innerRadius, p.outerRadius, p.startAngle, p.endAngle)
  THEN [d |-> null, calls |-> << >>]
  ELSE LET deltaRadius == p.outerRadius - p.innerRadius
           cr == getPercentValue(p.cornerRadius, deltaRadius, 0, TRUE)
       IN IF useCorner(cr, p.startAngle, p.endAngle)
          THEN LET cornerRadius == clampCornerRadius(cr, deltaRadius)
                   r == getSectorWithCorner(p.cx, p.cy, p.innerRadius, p.outerRadius,
                                            cornerRadius, p.forceCornerRadius,
                                            p.startAngle, p.endAngle)
               IN [d |-> r.path,
                   calls |-> << sectorWithCornerCall(p.cx, p.cy, p.innerRadius,
                                    p.outerRadius, cornerRadius, p.forceCornerRadius,
                                    p.startAngle, p.endAngle) >> \o r.calls]
          ELSE [d |-> getSectorPath(p.cx, p.cy, p.innerRadius, p.outerRadius,
                                    p.startAngle, p.endAngle),
                calls |-> << sectorPathCall(p.cx, p.cy, p.innerRadius, p.outerRadius,
                                            p.startAngle, p.endAngle) >>]

---------------------------------------------------------------------------
(* Inputs *)

\* largest radius drawn, in pixels
MaxRadius == 3

OuterRadii == { k * PX : k \in 0..MaxRadius }

InnerRadii == { -PX } \cup OuterRadii

\* -90, 0, 2, 30, 90, 270, 359.9995 and 360 degrees
Angles == { -90 * DEG, 0, 2 * DEG, 30 * DEG, 90 * DEG, 270 * DEG,
            360 * DEG - 1, 360 * DEG }

CornerRadii == { [kind |-> "abs", v |-> -PX],
                 [kind |-> "abs", v |-> 0], [kind |-> "abs", v |-> PX \div 2],
                 [kind |-> "abs", v |-> PX], [kind |-> "abs", v |-> 10 * PX],
                 [kind |-> "pct", v |-> 25], [kind |-> "pct", v |-> 50] }

Xs == { 0, 5 * PX }

Ys == { 0 }

Props == [cx : Xs, cy : Ys, innerRadius : InnerRadii, outerRadius : OuterRadii,
          startAngle : Angles, endAngle : Angles, cornerRadius : CornerRadii,
          forceCornerRadius : BOOLEAN]

---------------------------------------------------------------------------
(* The component *)

Init ==
  /\ props \in Props
  /\ pc = "idle"
  /\ d = null
  /\ calls = << >>

Render ==
  /\ pc = "idle"
  /\ LET r == render(props)
     IN /\ d' = r.d
        /\ calls' = r.calls
  /\ pc' = "rendered"
  /\ UNCHANGED props

\* the parent passes new values for the geometry props; the element is rendered again
ReceiveProps ==
  /\ pc = "rendered"
  /\ \E a \in Angles :
       \/ props' = [props EXCEPT !.startAngle = a]
       \/ props' = [props EXCEPT !.endAngle = a]
  /\ pc' = "idle"
  /\ d' = null
  /\ calls' = << >>

Next == Render \/ ReceiveProps

Spec == Init /\ [][Next]_vars

---------------------------------------------------------------------------
(* Properties *)

rendered == pc = "rendered"

deltaRadiusOf(p) == p.outerRadius - p.innerRadius

\* the corner radius the cornerRadius prop resolves to
resolved(p) == getPercentValue(p.cornerRadius, deltaRadiusOf(p), 0, TRUE)

span(p) == Abs(p.startAngle - p.endAngle)

\* C1: render returns null exactly when outerRadius < innerRadius or
\* startAngle = endAngle, whatever cornerRadius and forceCornerRadius are.
C1_NullIffInvalid ==
  rendered =>
    ((d = null) <=>
       (props.outerRadius < props.innerRadius \/ props.startAngle = props.endAngle))

\* a full turn from 0 to 360 degrees on an annulus of zero thickness draws a path
C1_Witness ==
  /\ rendered
  /\ props.startAngle = 0 /\ props.endAngle = 360 * DEG
  /\ props.outerRadius = props.innerRadius
  /\ d # null

\* C2: a valid input goes to getSectorWithCorner exactly when
\* min(resolved cornerRadius, deltaRadius / 2) > 0 and |startAngle - endAngle| < 360,
\* and to getSectorPath, and nothing else, otherwise.
C2_Dispatch ==
  rendered /\ d # null =>
    IF Min(2 * resolved(props), deltaRadiusOf(props)) > 0 /\ span(props) < 360 * DEG
    THEN calls[1].fn = "getSectorWithCorner"
    ELSE Len(calls) = 1 /\ calls[1].fn = "getSectorPath"

\* a span just under a full turn is rounded
C2_Witness ==
  /\ rendered
  /\ span(props) = 360 * DEG - 1
  /\ calls # << >> /\ calls[1].fn = "getSectorWithCorner"

\* C3: the cornerRadius handed to getSectorWithCorner is at most deltaRadius / 2, and
\* two requests that differ only in a cornerRadius at or above deltaRadius / 2 give
\* the same output.
C3_Clamped ==
  rendered =>
    /\ \A i \in DOMAIN calls :
         calls[i].fn = "getSectorWithCorner" =>
           2 * calls[i].cornerRadius <= deltaRadiusOf(props)
    /\ \A c \in CornerRadii :
         LET q == [props EXCEPT !.cornerRadius = c]
         IN 2 * resolved(props) >= deltaRadiusOf(props) /\
            2 * resolved(q) >= deltaRadiusOf(props)
              => render(q).d = d

\* ten pixels requested on a disc of radius one: half a pixel is used
C3_Witness ==
  /\ rendered
  /\ props.cornerRadius = [kind |-> "abs", v |-> 10 * PX]
  /\ props.innerRadius = 0 /\ props.outerRadius = PX
  /\ calls # << >> /\ calls[1].fn = "getSectorWithCorner"
  /\ calls[1].cornerRadius = PX \div 2

\* min(|endAngle - startAngle|, 359.999) carrying the sign of endAngle - startAngle
cappedDelta(p) ==
  LET diff == p.endAngle - p.startAngle
      m == IF Abs(diff) < CapAngle THEN Abs(diff) ELSE CapAngle
  IN IF diff < 0 THEN -m ELSE m

viaCorner == calls # << >> /\ calls[1].fn = "getSectorWithCorner"

viaSectorPath == \E i \in DOMAIN calls : calls[i].fn = "getSectorPath"

tangentCalls == { i \in DOMAIN calls : calls[i].fn = "getTangentCircle" }

\* C4 as stated: every angle handed to an arc computation, in either builder, is
\* startAngle or startAngle + deltaAngle with the capped deltaAngle; the raw endAngle
\* is never used in its place.  (Stated for radii in the documented range, >= 0.)
C4_CappedEverywhere ==
  rendered /\ props.innerRadius >= 0 =>
    \A i \in tangentCalls :
      calls[i].angle \in { props.startAngle, props.startAngle + cappedDelta(props) }

\* C4 amended: getSectorPath computes its end points and its large-arc flags from the
\* capped, signed delta; getSectorWithCorner uses the raw endAngle and the uncapped
\* |startAngle - endAngle|, is only called below a full turn, and so departs from the
\* capped values exactly when 359.999 < |endAngle - startAngle| < 360.
C4_CappedInSectorPath ==
  rendered =>
    /\ viaSectorPath =>
         LET tempEnd == props.startAngle + cappedDelta(props)
             large == Bit(Abs(cappedDelta(props)) > 180 * DEG)
         IN /\ d[1].p = polarToCartesian(props.cx, props.cy, props.outerRadius,
                                         props.startAngle)
            /\ d[2].p = polarToCartesian(props.cx, props.cy, props.outerRadius, tempEnd)
            /\ d[2].large = large
            /\ props.innerRadius > 0 =>
                 /\ d[3].p = polarToCartesian(props.cx, props.cy, props.innerRadius,
                                              tempEnd)
                 /\ d[4].p = polarToCartesian(props.cx, props.cy, props.innerRadius,
                                              props.startAngle)
                 /\ d[4].large = large
    /\ viaCorner =>
         /\ span(props) < 360 * DEG
         /\ \A i \in tangentCalls :
              calls[i].angle =
                IF calls[i].sign = mathSign(props.endAngle - props.startAngle)
                THEN props.startAngle ELSE props.endAngle
         /\ (props.endAngle = props.startAngle + cappedDelta(props))
              <=> ~(CapAngle < span(props) /\ span(props) < 360 * DEG)

\* the rounded builder at a span of 359.9995 degrees: its end corner sits at the raw
\* endAngle, not at startAngle + deltaAngle
C4_Witness ==
  /\ rendered /\ viaCorner
  /\ span(props) = 360 * DEG - 1
  /\ calls[3].angle = props.endAngle
  /\ calls[3].angle # props.startAngle + cappedDelta(props)

outerArcAngleOf == arcAngle(props.startAngle, props.endAngle, calls[2].theta, calls[3].theta)

innerArcAngleOf == arcAngle(props.startAngle, props.endAngle, calls[4].theta, calls[5].theta)

\* C5: in getSectorWithCorner with outerArcAngle < 0, the output is getSectorPath's for
\* the same centre, radii and angles when forceCornerRadius is false; when it is true,
\* a move to the start line-tangency point and two relative arcs of radius
\* cornerRadius with offsets (+2 cornerRadius, 0) and (-2 cornerRadius, 0), nothing else.
C5_TooShortFallback ==
  rendered /\ viaCorner /\ outerArcAngleOf # NaN /\ outerArcAngleOf < 0 =>
    IF props.forceCornerRadius
    THEN LET c == calls[1].cornerRadius
             solt == getTangentCircle(props.cx, props.cy, props.outerRadius,
                       props.startAngle,
                       mathSign(props.endAngle - props.startAngle),
                       FALSE, c).lineTangency
         IN /\ Len(d) = 3
            /\ d[1] = [op |-> "M", p |-> solt]
            /\ \A i \in {2, 3} : d[i].op = "a" /\ d[i].rx = c /\ d[i].ry = c /\ d[i].dy = 0
            /\ d[2].dx = 2 * c
            /\ d[3].dx = -(2 * c)
    ELSE d = getSectorPath(props.cx, props.cy, props.innerRadius, props.outerRadius,
                           props.startAngle, props.endAngle)

\* two degrees of span, corners forced: the circle
C5_Witness ==
  /\ rendered /\ viaCorner
  /\ span(props) = 2 * DEG
  /\ props.forceCornerRadius
  /\ outerArcAngleOf # NaN /\ outerArcAngleOf < 0
  /\ Len(d) = 3

\* where the pen is after the first n commands of a path: a point and an offset from it
RECURSIVE penAfter(_, _)
penAfter(path, n) ==
  IF n = 1 THEN [p |-> path[1].p, dx |-> 0, dy |-> 0]
  ELSE LET prev == penAfter(path, n - 1)
           c == path[n]
       IN IF c.op = "a" THEN [p |-> prev.p, dx |-> prev.dx + c.dx, dy |-> prev.dy + c.dy]
          ELSE IF c.op = "Z" THEN [p |-> path[1].p, dx |-> 0, dy |-> 0]
          ELSE [p |-> c.p, dx |-> 0, dy |-> 0]

\* C7: every emitted path is one closed contour: a single move, first; a close only
\* as the last command; and either that close or a pen that is back at the start.
C7_ClosedContour ==
  rendered /\ d # null =>
    /\ d[1].op = "M"
    /\ \A i \in 2..Len(d) : d[i].op # "M"
    /\ \A i \in 1..(Len(d) - 1) : d[i].op # "Z"
    /\ \/ d[Len(d)].op = "Z"
       \/ penAfter(d, Len(d)) = [p |-> d[1].p, dx |-> 0, dy |-> 0]

\* the forced circle has no Z: its two half circles bring the pen back
C7_Witness ==
  /\ rendered /\ d # null
  /\ d[Len(d)].op = "a"
  /\ penAfter(d, Len(d)) = [p |-> d[1].p, dx |-> 0, dy |-> 0]

\* the props with startAngle and endAngle exchanged, and what render draws for them
swapped == [props EXCEPT !.startAngle = props.endAngle, !.endAngle = props.startAngle]

dSwapped == render(swapped).d

isArc(c) == c.op \in {"A", "a"}

\* the points a path names
pointsOf(path) == { path[i].p : i \in { j \in DOMAIN path : path[j].op \in {"M", "A", "L"} } }

isForcedCircle(path) == path # null /\ path[Len(path)].op = "a"

\* C6 as stated: exchanging startAngle and endAngle flips the sweep flag of every arc
\* of the emitted path, keeps every large-arc flag, and covers the same angles (the
\* path runs through the same points), on every path render can emit.  (Stated for
\* radii in the documented range, >= 0.)
C6_SwapFlipsEveryArc ==
  rendered /\ d # null /\ props.innerRadius >= 0 =>
    /\ Len(dSwapped) = Len(d)
    /\ \A i \in DOMAIN d :
         /\ dSwapped[i].op = d[i].op
         /\ isArc(d[i]) =>
              /\ dSwapped[i].sweep = 1 - d[i].sweep
              /\ dSwapped[i].large = d[i].large
              /\ dSwapped[i].rx = d[i].rx
    /\ pointsOf(dSwapped) = pointsOf(d)

\* C6 amended: the exchange keeps the commands, radii and large-arc flags of the path;
\* it flips the sweep flag of every absolute arc (every arc of getSectorPath and of the
\* rounded outer and inner edges) but not of the forced circle, whose two arcs keep
\* sweep flag 1; the path runs through the same points unless it is the forced circle
\* (drawn at the new start) or comes from getSectorPath with
\* |endAngle - startAngle| > 359.999 (the capped end is measured from the new start).
C6_SwapFlipsAbsoluteArcs ==
  rendered /\ d # null =>
    /\ Len(dSwapped) = Len(d)
    /\ \A i \in DOMAIN d :
         /\ dSwapped[i].op = d[i].op
         /\ isArc(d[i]) =>
              /\ dSwapped[i].large = d[i].large
              /\ dSwapped[i].rx = d[i].rx
              /\ dSwapped[i].sweep = IF d[i].op = "A" THEN 1 - d[i].sweep ELSE 1
              /\ d[i].op = "a" => d[i].sweep = 1
    /\ ~isForcedCircle(d) /\ (viaSectorPath => span(props) <= CapAngle)
         => pointsOf(dSwapped) = pointsOf(d)

\* a rounded annular sector, inner edge included, drawn clockwise
C6_Witness ==
  /\ rendered /\ viaCorner
  /\ Len(d) = 9
  /\ props.endAngle < props.startAngle
  /\ d[3].sweep = 1 /\ dSwapped[3].sweep = 0
  /\ d[7].sweep = 0 /\ dSwapped[7].sweep = 1

\* C8: in getSectorPath both large-arc flags are 1 iff |deltaAngle| > 180; the outer
\* sweep flag is 1 iff startAngle > tempEndAngle, which is iff endAngle < startAngle;
\* the inner sweep flag is its complement; with innerRadius 0 the path is a move, the
\* outer arc, a line to (cx, cy) and a close.
C8_SectorPathFlags ==
  rendered /\ viaSectorPath =>
    LET delta == cappedDelta(props)
        tempEndAngle == props.startAngle + delta
    IN /\ d[1].op = "M" /\ d[2].op = "A"
       /\ d[2].large = 1 <=> Abs(delta) > 180 * DEG
       /\ d[2].large \in {0, 1} /\ d[2].sweep \in {0, 1}
       /\ d[2].sweep = 1 <=> props.startAngle > tempEndAngle
       /\ props.startAngle > tempEndAngle <=> props.endAngle < props.startAngle
       /\ props.innerRadius > 0 =>
            /\ Len(d) = 5
            /\ d[3].op = "L" /\ d[4].op = "A" /\ d[5].op = "Z"
            /\ d[4].large = d[2].large
            /\ d[4].sweep = 1 - d[2].sweep
       /\ props.innerRadius = 0 =>
            /\ Len(d) = 4
            /\ d[3] = [op |-> "L", p |-> centerPoint(props.cx, props.cy)]
            /\ d[4].op = "Z"

\* half a turn exactly, from -90 to 90 degrees, on an annulus: large-arc 0, sweep 0
\* outside and 1 inside
C8_Witness ==
  /\ rendered /\ viaSectorPath
  /\ props.startAngle = -90 * DEG /\ props.endAngle = 90 * DEG
  /\ props.innerRadius > 0
  /\ d[2].large = 0 /\ d[2].sweep = 0 /\ d[4].large = 0 /\ d[4].sweep = 1

\* C9: in getSectorWithCorner with the outer edge emitted (outerArcAngle >= 0), the
\* inner edge (a line to the inner end line-tangency point, three arcs, a close) is
\* emitted exactly when innerRadius > 0 and innerArcAngle >= 0; otherwise, whatever
\* forceCornerRadius is, the three outer arcs are followed by a line to (cx, cy) and
\* a close.
C9_InnerEdge ==
  rendered /\ viaCorner /\ outerArcAngleOf # NaN /\ outerArcAngleOf >= 0 =>
    /\ \A i \in 2..4 : d[i].op = "A"
    /\ d[1].op = "M"
    /\ IF props.innerRadius > 0 /\ innerArcAngleOf >= 0
       THEN /\ Len(d) = 9
            /\ d[5] = [op |-> "L", p |->
                        getTangentCircle(props.cx, props.cy, props.innerRadius,
                          props.endAngle,
                          -mathSign(props.endAngle - props.startAngle),
                          TRUE, calls[1].cornerRadius).lineTangency]
            /\ \A i \in 6..8 : d[i].op = "A"
            /\ d[9].op = "Z"
       ELSE /\ Len(d) = 6
            /\ d[5] = [op |-> "L", p |-> centerPoint(props.cx, props.cy)]
            /\ d[6].op = "Z"

\* an annulus whose outer corners fit and whose inner corners do not, corners forced:
\* closed through the centre
C9_Witness ==
  /\ rendered /\ viaCorner
  /\ outerArcAngleOf # NaN /\ outerArcAngleOf >= 0
  /\ props.innerRadius > 0 /\ innerArcAngleOf < 0
  /\ props.forceCornerRadius
  /\ Len(d) = 6

\* C10: with innerRadius >= 0, every call of getTangentCircle has
\* 0 < cornerRadius <= centerRadius, so the argument of Math.asin is in (0, 1] and
\* theta is a number in (0, 90] degrees.
C10_AsinInDomain ==
  rendered /\ props.innerRadius >= 0 =>
    \A i \in tangentCalls :
      LET centerRadius == IF calls[i].isExternal
                          THEN calls[i].radius + calls[i].cornerRadius
                          ELSE calls[i].radius - calls[i].cornerRadius
      IN /\ 0 < calls[i].cornerRadius
         /\ calls[i].cornerRadius <= centerRadius
         /\ calls[i].theta # NaN
         /\ 0 < calls[i].theta /\ calls[i].theta <= 90 * DEG

\* a disc with the largest corner radius: cornerRadius = centerRadius, theta = 90
C10_Witness ==
  /\ rendered /\ viaCorner
  /\ props.innerRadius = 0
  /\ calls[2].cornerRadius = calls[2].radius - calls[2].cornerRadius
  /\ calls[2].theta = 90 * DEG

====
